---- MODULE Spec2Model ----
(***************************************************************************)
(* Model of ldapuser.py: the ldapuser class working against an LDAP        *)
(* directory.  The directory is the state; every CLI command is one        *)
(* action (one process invocation, run one at a time).  The directory      *)
(* server is modelled as a schema-enforcing LDAP server (RFC 4519          *)
(* groupOfNames: MUST member; RFC 2307 posixGroup: MUST gidNumber, MAY     *)
(* memberUid); an attribute with no values does not exist.                 *)
(*                                                                         *)
(* Spec runs any commands on a seed directory; SpecGroups runs the         *)
(* commands that write groups without deleting any; SpecLast runs the      *)
(* last commands on a directory that earlier commands left, with all the   *)
(* attribute options of user update; SpecAlloc calls the ID allocators;    *)
(* SpecShow runs user show after member adds by name and by DN; SpecAbsent *)
(* runs user update and user delete where a user has no entry; SpecPass    *)
(* generates credentials; SpecRace runs two invocations at the same time,  *)
(* a step being one operation of the directory.                            *)
(***************************************************************************)
EXTENDS Integers, Sequences, FiniteSets, TLC

\* ---------------------------------------------------------------- bounds
\* number of commands run on the directory the run starts with
MaxCmds == 2

\* ------------------------------------------------- configuration values
\* user_minuid / user_maxuid / user_mingid / user_maxgid of ldapuser.conf
\* (a small configured range; the defaults are 1500 and 2000)
minuid == 1
maxuid == 6
mingid == 1
maxgid == 6

user_basedn == "ou=users"
group_basedn == "ou=groups"

Users == {"alice", "bob"}
\* createUser makes a group named after the user, so user names are group names
GroupNames == Users \cup {"devs"}

\* numeric IDs given on the command line: the lower edge of the range (not
\* inside it) and the first ID inside
ExplicitUids == {minuid, minuid + 1}
ExplicitGids == {mingid, mingid + 1}
\* an optional argument is the empty set (absent) or a singleton
OptUid == {{}} \cup {{v} : v \in ExplicitUids}
OptGid == {{}} \cup {{v} : v \in ExplicitGids}

VARIABLES users, groups, last, ncmds, procs

vars == <<users, groups, last, ncmds, procs>>

\* ---------------------------------------------------------------- helpers
Max(S) == CHOOSE x \in S : \A y \in S : y <= x

TheOne(S) == CHOOSE x \in S : TRUE

\* "uid=%s,%s" % (user, self.user_basedn)
UserDN(user) == <<"uid", user, user_basedn>>

\* the same DN as the text that "uid=%s,%s" % (user, self.user_basedn) is:
\* what a memberUid value, which is a string and no DN, is compared with
DNText(user) == "uid=" \o user \o "," \o user_basedn

\* "cn=%s,%s" % (group, self.group_basedn)
GroupDN(group) == <<"cn", group, group_basedn>>

\* group_dn.split(',')[0].split('cn=')[1]
GroupOfDN(dn) == dn[2]

Range(s) == {s[i] : i \in 1..Len(s)}

\* the order in which a subtree search of group_basedn returns the entries
NameOrder == <<"alice", "bob", "devs">>

\* values of a --group option: lists of distinct group names, the empty
\* string among them, given in directory order
GroupLists ==
  {SelectSeq(<<"">> \o NameOrder, LAMBDA g : g \in S) :
     S \in SUBSET (GroupNames \cup {""})}

\* ------------------------------------------------------------ ID allocator
\* result of an allocator call: ret is {id} on return, {} when it raised
Returned(v) == [raised |-> "none", ret |-> {v}]
Raised(e) == [raised |-> e, ret |-> {}]

\* _getuid with the first ID taken one past the configured minimum
_getuid_past_min(us, uid) ==
  IF uid # {}
  THEN LET v == TheOne(uid) IN
       IF minuid < v /\ v < maxuid
       THEN IF \E u \in DOMAIN us : us[u].uidNumber = v
            THEN Raised("UID already exists")
            ELSE Returned(v)
       ELSE Raised("Invalid UID")
  ELSE LET uids == {x \in {us[u].uidNumber : u \in DOMAIN us} :
                          minuid < x /\ x < maxuid}
       IN Returned(IF uids = {} THEN minuid + 1 ELSE Max(uids) + 1)

\* _getuid(uid): us is the result of the posixAccount search (the user entries)
_getuid(us, uid) ==
  IF uid # {}
  THEN LET v == TheOne(uid) IN
       IF minuid < v /\ v < maxuid
       THEN IF \E u \in DOMAIN us : us[u].uidNumber = v
            THEN Raised("UID already exists")
            ELSE Returned(v)
       ELSE Raised("Invalid UID")
  ELSE LET uids == {x \in {us[u].uidNumber : u \in DOMAIN us} :
                          minuid < x /\ x < maxuid}
       IN Returned(IF uids = {} THEN minuid ELSE Max(uids) + 1)

\* the entries the search 'objectClass=posixGroup' returns
PosixGroups(gs) == {g \in DOMAIN gs : gs[g].objectClass = "posixGroup"}

\* _getgid(gid): gs holds the group entries of the directory
_getgid(gs, gid) ==
  IF gid # {}
  THEN LET v == TheOne(gid) IN
       IF mingid < v /\ v < maxgid
       THEN Returned(v)
       ELSE Raised("Invalid GID")
  ELSE LET gids == {x \in UNION {gs[g].gidNumber : g \in PosixGroups(gs)} :
                          mingid < x /\ x < maxgid}
       IN Returned(IF gids = {} THEN mingid ELSE Max(gids) + 1)

\* ------------------------------------------------------- directory server
\* a group entry: attributes are value sets, the empty set is an absent one
PosixEntry(gid, members) ==
  [objectClass |-> "posixGroup", gidNumber |-> {gid},
   memberUid |-> members, member |-> {}]

NamedEntry(members) ==
  [objectClass |-> "groupOfNames", gidNumber |-> {},
   memberUid |-> {}, member |-> {UserDN(m) : m \in members}]

\* the schema the server enforces on a group entry
SchemaOk(e) ==
  IF e.objectClass = "posixGroup"
  THEN e.gidNumber # {} /\ e.member = {}
  ELSE e.member # {} /\ e.memberUid = {} /\ e.gidNumber = {}

\* the running command: the directory as it stands, the writes issued so
\* far, what was logged with logger.error, the exception in flight and the
\* session that __init__ bound with simple_bind_s (no command unbinds it);
\* out is what "user show" prints of the groups of each user
Ctx(us, gs) == [users |-> us, groups |-> gs, ops |-> <<>>, log |-> <<>>,
                raised |-> "none", session |-> "bound", out |-> <<>>]

Op(op, dn, ok) == [op |-> op, dn |-> dn, ok |-> ok]

\* a write of a group record: oc is the objectClass sent, attrs the names of
\* the other attributes of the record (cn aside)
GroupOp(op, group, ok, oc, attrs) ==
  [op |-> op, dn |-> GroupDN(group), ok |-> ok, oc |-> oc, attrs |-> attrs]

\* the attributes an entry (or record) has
AttrsOf(e) == {k \in {"gidNumber", "memberUid", "member"} : e[k] # {}}

Raise(c, e) == [c EXCEPT !.raised = e]
Log(c, m) == [c EXCEPT !.log = Append(@, m)]
\* logger.error(...) followed by sys.exit(1)
LogExit(c, m) == Raise(Log(c, m), "SystemExit")

\* self.conn.add_s(dn, record) on a group entry
add_group(c, group, e) ==
  LET sent(ok) == GroupOp("add_s", group, ok, e.objectClass, AttrsOf(e)) IN
  IF group \in DOMAIN c.groups
  THEN [c EXCEPT !.ops = Append(@, sent(FALSE)), !.raised = "ALREADY_EXISTS"]
  ELSE IF ~SchemaOk(e)
  THEN [c EXCEPT !.ops = Append(@, sent(FALSE)),
                 !.raised = "OBJECT_CLASS_VIOLATION"]
  ELSE [c EXCEPT !.ops = Append(@, sent(TRUE)),
                 !.groups = (group :> e) @@ @]

\* self.conn.modify_s(dn, record) on a group entry: record replaces the
\* objectClass by oc and every attribute k of repl by repl[k]; the server
\* refuses a change of the structural class and an entry off its schema
modify_group_record(c, group, oc, repl) ==
  LET sent(ok) == GroupOp("modify_s", group, ok, oc, DOMAIN repl) IN
  IF group \notin DOMAIN c.groups
  THEN [c EXCEPT !.ops = Append(@, sent(FALSE)), !.raised = "NO_SUCH_OBJECT"]
  ELSE LET old == c.groups[group]
           new == [k \in DOMAIN old |->
                     IF k = "objectClass" THEN oc
                     ELSE IF k \in DOMAIN repl THEN repl[k] ELSE old[k]]
       IN IF oc = old.objectClass /\ SchemaOk(new)
          THEN [c EXCEPT !.ops = Append(@, sent(TRUE)), !.groups[group] = new]
          ELSE [c EXCEPT !.ops = Append(@, sent(FALSE)),
                         !.raised = "OBJECT_CLASS_VIOLATION"]

\* self.conn.modify_s(dn, [(MOD_REPLACE, 'objectClass', ..), (.., attr, vals)])
\* attr is "memberUid" or "member"
modify_group(c, group, oc, attr, vals) ==
  modify_group_record(c, group, oc, attr :> vals)

\* delete_s that reports success for an entry that is not there
delete_entry_missing_ok(c, kind, name) ==
  LET dir == IF kind = "user" THEN c.users ELSE c.groups
      dn == IF kind = "user" THEN UserDN(name) ELSE GroupDN(name)
      rest == [x \in DOMAIN dir \ {name} |-> dir[x]]
  IN IF kind = "user"
     THEN [c EXCEPT !.ops = Append(@, Op("delete_s", dn, TRUE)), !.users = rest]
     ELSE [c EXCEPT !.ops = Append(@, Op("delete_s", dn, TRUE)), !.groups = rest]

\* self.conn.delete_s(dn)
delete_entry(c, kind, name) ==
  LET dir == IF kind = "user" THEN c.users ELSE c.groups
      dn == IF kind = "user" THEN UserDN(name) ELSE GroupDN(name)
      rest == [x \in DOMAIN dir \ {name} |-> dir[x]]
  IN IF name \notin DOMAIN dir
     THEN [c EXCEPT !.ops = Append(@, Op("delete_s", dn, FALSE)),
                    !.raised = "NO_SUCH_OBJECT"]
     ELSE IF kind = "user"
          THEN [c EXCEPT !.ops = Append(@, Op("delete_s", dn, TRUE)), !.users = rest]
          ELSE [c EXCEPT !.ops = Append(@, Op("delete_s", dn, TRUE)), !.groups = rest]

\* self.conn.add_s(user_dn, user_record); dupHost: the host list repeats a value
add_user(c, user, e, dupHost) ==
  IF user \in DOMAIN c.users
  THEN [c EXCEPT !.ops = Append(@, Op("add_s", UserDN(user), FALSE)),
                 !.raised = "ALREADY_EXISTS"]
  ELSE IF dupHost
  THEN [c EXCEPT !.ops = Append(@, Op("add_s", UserDN(user), FALSE)),
                 !.raised = "TYPE_OR_VALUE_EXISTS"]
  ELSE [c EXCEPT !.ops = Append(@, Op("add_s", UserDN(user), TRUE)),
                 !.users = (user :> e) @@ @]

\* self.conn.modify_s(user_dn, new_user_record)
modify_user(c, user, e, dupHost) ==
  IF user \notin DOMAIN c.users
  THEN [c EXCEPT !.ops = Append(@, Op("modify_s", UserDN(user), FALSE)),
                 !.raised = "NO_SUCH_OBJECT"]
  ELSE IF dupHost
  THEN [c EXCEPT !.ops = Append(@, Op("modify_s", UserDN(user), FALSE)),
                 !.raised = "TYPE_OR_VALUE_EXISTS"]
  ELSE [c EXCEPT !.ops = Append(@, Op("modify_s", UserDN(user), TRUE)),
                 !.users[user] = e]

\* an except clause that logs and goes on
Caught(c, m) == Log([c EXCEPT !.raised = "none"], m)

\* ------------------------------------------------------------ group commands
\* group_create(args): gid is the --gid option, members the --member list
group_create(c, group, gid, groupOfNames, members) ==
  LET r == _getgid(c.groups, gid) IN
  IF r.raised # "none" THEN Raise(c, r.raised)
  ELSE LET e == IF groupOfNames THEN NamedEntry(members)
                ELSE PosixEntry(TheOne(r.ret), members)
           a == add_group(c, group, e)
       IN IF a.raised = "ALREADY_EXISTS"
          THEN Caught(a, "Group already exists")
          ELSE a

\* group_delete(args)
group_delete(c, group) ==
  LET d == delete_entry(c, "group", group) IN
  IF d.raised = "NO_SUCH_OBJECT" THEN Caught(d, "Group doesnt exist") ELSE d

\* group_create_member(args)
group_create_member(c, group, member) ==
  IF group \notin DOMAIN c.groups
  THEN LogExit(c, "Adding member to a group - group does not exit")
  ELSE LET e == c.groups[group]
           m == IF e.memberUid # {}
                THEN modify_group(c, group, "posixGroup", "memberUid",
                                  e.memberUid \cup {member})
                ELSE modify_group(c, group, "groupOfNames", "member",
                                  e.member \cup {UserDN(member)})
       IN IF e.memberUid = {} /\ e.member = {}
          THEN Raise(c, "KeyError")
          ELSE IF m.raised # "none" THEN Caught(m, "Error adding to a group")
          ELSE m

\* group_delete_member(args)
group_delete_member(c, group, member) ==
  IF group \notin DOMAIN c.groups
  THEN Log(Log(c, "Deleting member from a group - group does not exit"),
           "Error deleting from a group")
  ELSE LET e == c.groups[group]
           m == IF e.memberUid # {} /\ member \in e.memberUid
                THEN modify_group(c, group, "posixGroup", "memberUid",
                                  e.memberUid \ {member})
                ELSE modify_group(c, group, "groupOfNames", "member",
                                  e.member \ {UserDN(member)})
       IN IF e.memberUid # {} /\ member \in e.memberUid
          THEN IF m.raised # "none" THEN Caught(m, "Error deleting from a group") ELSE m
          ELSE IF e.member = {} THEN Raise(c, "KeyError")
          ELSE IF UserDN(member) \notin e.member THEN Raise(c, "ValueError")
          ELSE IF m.raised # "none" THEN Caught(m, "Error deleting from a group")
          ELSE m

\* group_update(args): gid is the --gid option
group_update(c, group, gid) ==
  IF group \notin DOMAIN c.groups THEN LogExit(c, "Group not found")
  ELSE LET e == c.groups[group]
           \* every attribute of the entry, then gidNumber again with --gid
           repl == IF gid = {} THEN <<>>
                   ELSE [k \in AttrsOf(e) \cup {"gidNumber"} |->
                           IF k = "gidNumber" THEN gid ELSE e[k]]
           m == modify_group_record(c, group, "posixGroup", repl)
       IN \* the search '(objectclass=posixGroup)' finds nothing: res[0]
          IF e.objectClass # "posixGroup" THEN Raise(c, "IndexError")
          ELSE IF m.raised # "none" THEN Caught(m, "Error modyfing group")
          ELSE m

\* group_update_member whose second attempt keeps the attribute of the first
group_update_member_same_attr(c, group, members) ==
  LET first == modify_group(c, group, "posixGroup", "memberUid", members)
      retry == modify_group([first EXCEPT !.raised = "none"], group,
                            "groupOfNames", "memberUid",
                            {UserDN(m) : m \in members})
  IN IF first.raised = "none" THEN first ELSE retry

\* group_update_member(args): members is the --update list
group_update_member(c, group, members) ==
  LET first == modify_group(c, group, "posixGroup", "memberUid", members)
      retry == modify_group([first EXCEPT !.raised = "none"], group,
                            "groupOfNames", "member",
                            {UserDN(m) : m \in members})
  IN IF first.raised = "none" THEN first ELSE retry

\* ------------------------------------------------------------- user commands
all_groups(gs) == SelectSeq(NameOrder, LAMBDA g : g \in DOMAIN gs)

\* the membership test of user_update's scan over all_groups: "user in v or
\* user_dn in v" for each attribute v of the entry. The bare name is no value
\* of member, whose values are DNs
InGroup(e, user) ==
  /\ (e.member # {} \/ e.memberUid # {})
  /\ \/ user \in e.memberUid
     \/ DNText(user) \in e.memberUid
     \/ UserDN(user) \in e.member

\* the groups in which user_update's scan finds the user
CurrentGroups(gs, user) == {g \in DOMAIN gs : InGroup(gs[g], user)}

\* for group in groups: self.group_create_member(...); skipEmpty is the
\* "if grp != ''" of user_update
RECURSIVE create_members(_, _, _, _)
create_members(c, user, grps, skipEmpty) ==
  IF grps = <<>> \/ c.raised # "none" THEN c
  ELSE IF skipEmpty /\ Head(grps) = ""
       THEN create_members(c, user, Tail(grps), skipEmpty)
       ELSE create_members(group_create_member(c, Head(grps), user),
                           user, Tail(grps), skipEmpty)

\* the loop over all_groups of user_update: found is the search result
RECURSIVE delete_members(_, _, _, _)
delete_members(c, user, found, grps) ==
  IF found = <<>> \/ c.raised # "none" THEN c
  ELSE LET g == Head(found) IN
       IF InGroup(c.groups[g], user) /\ g \notin Range(grps)
       THEN delete_members(group_delete_member(c, g, user), user, Tail(found), grps)
       ELSE delete_members(c, user, Tail(found), grps)

\* the files a --sshkey option can name that open(), and their first line
KeyFiles == [f \in {"id_rsa.pub"} |-> "ssh-rsa AAAA"]

\* with open(sshkey) as f fails
CantOpen(sshkey) == sshkey # {} /\ TheOne(sshkey) \notin DOMAIN KeyFiles

\* hashlib.sha1(m).digest() and base64.encodestring(b)[:-1]: the text names
\* the bytes, one text for one input
sha1(m) == "sha1(" \o m \o ")"
base64(b) == "b64(" \o b \o ")"

\* '{SSHA}' + base64(sha1(password + salt) + salt)
ssha(password, salt) == "{SSHA}" \o base64(sha1(password \o salt) \o salt)

\* the defaults of _getpass: size, and chars = ascii_lowercase +
\* ascii_uppercase + digits
size == 9
chars == "abcdefghijklmnopqrstuvwxyzABCDEFGHIJKLMNOPQRSTUVWXYZ0123456789"

\* choice(chars) when the random source draws the j-th symbol
choice(s, j) == SubSeq(s, j, j)

\* ''.join(choice(chars) for x in range(size)): draw[i] is the i-th draw
RECURSIVE generated(_, _)
generated(draw, n) ==
  IF n = 0 THEN "" ELSE generated(draw, n - 1) \o choice(chars, draw[n])

\* what choice(chars) nine times and os.urandom(4) may give
GenPasswords == {"q7Rk2mZp9"}
Salts == {"a1b2"}

\* _getpass(password): gen is the generated password, salt the drawn salt;
\* "if not password" holds for no password and for the empty one
_getpass(password, gen, salt) ==
  LET p == IF password = {} \/ TheOne(password) = "" THEN gen
           ELSE TheOne(password)
  IN <<p, ssha(p, salt)>>

\* _gethosts(host): the --host values as given (no host file among them)
_gethosts(host) == host

\* user_record with the first element of the _getpass pair as userPassword
user_record_plaintext(user, uid, gid, a, password) ==
  [uidNumber     |-> uid,
   gidNumber     |-> gid,
   homeDirectory |-> IF a.home = {} THEN <<"/home/", user>> ELSE TheOne(a.home),
   mail          |-> IF a.mail = {} THEN <<user, "@o2.com">> ELSE TheOne(a.mail),
   loginShell    |-> IF a.shell = {} THEN "/bin/bash" ELSE TheOne(a.shell),
   userPassword  |-> password[1],
   sshPublicKey  |-> IF a.sshkey = {} THEN "None" ELSE KeyFiles[TheOne(a.sshkey)],
   host          |-> IF _gethosts(a.host) = {} THEN {"None"} ELSE _gethosts(a.host)]

\* the defaults and user_record of user_create; a holds the options
user_record(user, uid, gid, a, password) ==
  [uidNumber     |-> uid,
   gidNumber     |-> gid,
   homeDirectory |-> IF a.home = {} THEN <<"/home/", user>> ELSE TheOne(a.home),
   mail          |-> IF a.mail = {} THEN <<user, "@o2.com">> ELSE TheOne(a.mail),
   loginShell    |-> IF a.shell = {} THEN "/bin/bash" ELSE TheOne(a.shell),
   userPassword  |-> password[2],
   sshPublicKey  |-> IF a.sshkey = {} THEN "None" ELSE KeyFiles[TheOne(a.sshkey)],
   host          |-> IF _gethosts(a.host) = {} THEN {"None"} ELSE _gethosts(a.host)]

\* user_create(args): a holds the options
user_create(c, user, a, gen, salt) ==
  LET ru == _getuid(c.users, a.uid)
      rg == _getgid(c.groups, a.gid)
  IN IF ru.raised # "none" THEN Raise(c, ru.raised)
     ELSE IF rg.raised # "none" THEN Raise(c, rg.raised)
     ELSE IF CantOpen(a.sshkey) THEN LogExit(c, "Can't open ssh key file")
     ELSE LET rec == user_record(user, TheOne(ru.ret), TheOne(rg.ret), a,
                                 _getpass(a.pass, gen, salt))
              w == add_user(c, user, rec, a.dupHost)
              g == group_create(w, user, rg.ret, FALSE, {})
          IN IF w.raised = "ALREADY_EXISTS" THEN Caught(w, "User already exists")
             ELSE IF w.raised # "none" THEN w
             ELSE create_members(g, user, a.groups, FALSE)

\* the part of user_update that runs "if groups:"
reconcile(c, user, grps) ==
  IF "" \notin Range(grps) /\ \E g \in Range(grps) : g \notin DOMAIN c.groups
  THEN LogExit(c, "Invalid group")
  ELSE create_members(delete_members(c, user, all_groups(c.groups), grps),
                      user, grps, TRUE)

\* the values user_update has for the attributes, {} where the option is absent
NewValues(a, salt) ==
  [uidNumber     |-> a.uid,
   gidNumber     |-> a.gid,
   userPassword  |-> IF a.pass = {} \/ TheOne(a.pass) = "" THEN {}
                     ELSE {_getpass(a.pass, "", salt)[2]},
   homeDirectory |-> a.home,
   loginShell    |-> a.shell,
   givenName     |-> a.gecos,
   sshPublicKey  |-> IF a.sshkey = {} THEN {} ELSE {KeyFiles[TheOne(a.sshkey)]},
   host          |-> IF _gethosts(a.host) = {} THEN {} ELSE {_gethosts(a.host)},
   mail          |-> a.mail]

\* user_update that takes an absent --group option for an empty target list
user_update_absent_is_empty(c, user, a, salt) ==
  IF CantOpen(a.sshkey) THEN LogExit(c, "Can't open ssh key file")
  ELSE IF user \notin DOMAIN c.users THEN LogExit(c, "No such user")
  ELSE LET old == c.users[user]
           new == NewValues(a, salt)
           rec == [k \in DOMAIN old |->
                     IF new[k] # {} THEN TheOne(new[k]) ELSE old[k]]
           m == modify_user(c, user, rec, a.dupHost)
       IN IF m.raised = "TYPE_OR_VALUE_EXISTS"
          THEN Caught(m, "User has a duplicate host value")
          ELSE reconcile(m, user, IF a.groups = <<>> THEN <<"">> ELSE a.groups)

\* user_update(args): a holds the options
user_update(c, user, a, salt) ==
  IF CantOpen(a.sshkey) THEN LogExit(c, "Can't open ssh key file")
  ELSE IF user \notin DOMAIN c.users THEN LogExit(c, "No such user")
  ELSE LET old == c.users[user]
           new == NewValues(a, salt)
           \* every attribute of the entry, replaced where "<option> and
           \* '<attribute>' in record"
           rec == [k \in DOMAIN old |->
                     IF new[k] # {} THEN TheOne(new[k]) ELSE old[k]]
           m == modify_user(c, user, rec, a.dupHost)
       IN IF m.raised = "TYPE_OR_VALUE_EXISTS"
          THEN Caught(m, "User has a duplicate host value")
          ELSE IF a.groups = <<>> THEN m
          ELSE reconcile(m, user, a.groups)

\* user_delete with the missing group reaching its own except clause
user_delete_group_required(c, user) ==
  LET d == delete_entry(c, "user", user)
      g == delete_entry(d, "group", user)
  IN IF d.raised = "NO_SUCH_OBJECT" \/ g.raised = "NO_SUCH_OBJECT"
     THEN Raise(Caught(IF d.raised = "none" THEN g ELSE d, "User doesnt exist"),
                "SystemExit")
     ELSE g

\* user_delete(args)
user_delete(c, user) ==
  LET d == delete_entry(c, "user", user) IN
  IF d.raised = "NO_SUCH_OBJECT"
  THEN Raise(Caught(d, "User doesnt exist"), "SystemExit")
  ELSE group_delete(d, user)

\* the group names that user_show appends for the user whose uid attribute is
\* uid: one test of memberUid and one of member for each entry found
RECURSIVE shown_groups(_, _, _)
shown_groups(found, gs, uid) ==
  IF found = <<>> THEN <<>>
  ELSE LET e == gs[Head(found)]
       IN (IF e.memberUid # {} /\ uid \in e.memberUid
           THEN <<Head(found)>> ELSE <<>>)
          \o (IF e.member # {} /\ UserDN(uid) \in e.member
              THEN <<Head(found)>> ELSE <<>>)
          \o shown_groups(Tail(found), gs, uid)

\* user_show(args): user is the optional <user>; without it every user
\* entry is shown
user_show(c, user) ==
  IF user # {} /\ TheOne(user) \notin DOMAIN c.users
  THEN LogExit(c, "User not found")
  ELSE [c EXCEPT !.out =
         [u \in (IF user = {} THEN DOMAIN c.users ELSE user) |->
            shown_groups(all_groups(c.groups), c.groups, u)]]

\* ------------------------------------------------------------------ process
\* _dispatch_cmd and the end of the process: an exception that reaches
\* _dispatch_cmd is logged and the process exits 1, as sys.exit(1) does
ExitCode(c) == IF c.raised = "none" THEN 0 ELSE 1

\* one invocation of the command line client
Run(cmd, args, end) ==
  /\ ncmds < MaxCmds
  /\ ncmds' = ncmds + 1
  /\ \E c \in {end} :
       /\ users' = c.users
       /\ groups' = c.groups
       /\ last' = [cmd |-> cmd, args |-> args, exit |-> ExitCode(c),
                   raised |-> c.raised, ops |-> c.ops, log |-> c.log,
                   session |-> c.session, out |-> c.out]
  /\ UNCHANGED procs

Cur == Ctx(users, groups)

\* no --pass, --home, --shell, --gecos, --sshkey, --host, --mail option
NoAttrs == [pass |-> {}, home |-> {}, shell |-> {}, gecos |-> {},
            sshkey |-> {}, host |-> {}, mail |-> {}]

\* the option sets of "user create" and "user update": ID options, or a
\* --group list, or a --host list that repeats a value
UserArgs ==
  {[uid |-> uid, gid |-> gid, groups |-> <<>>, dupHost |-> FALSE] @@ NoAttrs :
     uid \in OptUid, gid \in OptGid}
  \cup {[uid |-> {}, gid |-> {}, groups |-> grps, dupHost |-> FALSE] @@ NoAttrs :
          grps \in GroupLists}
  \cup {[uid |-> {}, gid |-> {}, groups |-> <<>>, dupHost |-> TRUE,
          host |-> {"web1"}] @@ NoAttrs}

UserCreate ==
  \E user \in Users, a \in UserArgs, gen \in GenPasswords, salt \in Salts :
    Run("user_create", [user |-> user] @@ a,
        user_create(Cur, user, a, gen, salt))

UserUpdate ==
  \E user \in Users, a \in UserArgs, salt \in Salts :
    Run("user_update", [user |-> user] @@ a, user_update(Cur, user, a, salt))

\* the attribute options of "user update" and a value for each
OptionNames == {"uid", "gid", "pass", "home", "shell", "gecos", "sshkey",
                "host", "mail"}

OptionValue ==
  [uid    |-> {minuid + 3},
   gid    |-> {mingid + 3},
   pass   |-> {"s3cret"},
   home   |-> {<<"/srv/", "staff">>},
   shell  |-> {"/bin/zsh"},
   gecos  |-> {"A. Person"},
   sshkey |-> {"id_rsa.pub"},
   host   |-> {"web1", "web2"},
   mail   |-> {<<"staff", "@example.org">>}]

\* no option, one option, all options but one, every option
OptionSets ==
  {{}, OptionNames}
  \cup {{o} : o \in OptionNames}
  \cup {OptionNames \ {o} : o \in OptionNames}

\* "user update" with attribute options and no --group option; the last one
\* names a key file that cannot be opened
AttrArgs ==
  {[o \in OptionNames |-> IF o \in S THEN OptionValue[o] ELSE {}]
     @@ [groups |-> <<>>, dupHost |-> FALSE] : S \in OptionSets}
  \cup {[uid |-> {}, gid |-> {}, groups |-> <<>>, dupHost |-> FALSE,
          sshkey |-> {"missing.pub"}] @@ NoAttrs}

UserUpdateAttrs ==
  \E user \in Users, a \in AttrArgs, salt \in Salts :
    Run("user_update", [user |-> user] @@ a, user_update(Cur, user, a, salt))

UserDelete ==
  \E user \in Users :
    Run("user_delete", [user |-> user], user_delete(Cur, user))

\* group create [(--groupofnames --member USER ...) | --gid GID [--member USER ...]]
GroupArgs ==
  {[gid |-> {}, groupofnames |-> FALSE, member |-> {}]}
  \cup {[gid |-> {}, groupofnames |-> TRUE, member |-> m] :
          m \in (SUBSET Users) \ {{}}}
  \cup {[gid |-> {mingid + 3}, groupofnames |-> FALSE, member |-> m] :
          m \in SUBSET Users}
  \cup {[gid |-> {g}, groupofnames |-> FALSE, member |-> {}] : g \in ExplicitGids}

GroupCreate ==
  \E group \in GroupNames, a \in GroupArgs :
    Run("group_create", [group |-> group] @@ a,
        group_create(Cur, group, a.gid, a.groupofnames, a.member))

GroupDelete ==
  \E group \in GroupNames :
    Run("group_delete", [group |-> group], group_delete(Cur, group))

\* group member --add <user> <group>
GroupMemberAdd ==
  \E group \in GroupNames, user \in Users :
    Run("group_member_add", [group |-> group, user |-> user],
        group_create_member(Cur, group, user))

\* group member --del <user> <group>
GroupMemberDel ==
  \E group \in GroupNames, user \in Users :
    Run("group_member_del", [group |-> group, user |-> user],
        group_delete_member(Cur, group, user))

\* group member --update <user> ... <group>
GroupMemberUpdate ==
  \E group \in GroupNames, members \in (SUBSET Users) \ {{}} :
    Run("group_member_update", [group |-> group, user |-> members],
        group_update_member(Cur, group, members))

\* group update [--gid <gid>] <group>
GroupUpdate ==
  \E group \in GroupNames, gid \in OptGid :
    Run("group_update", [group |-> group, gid |-> gid],
        group_update(Cur, group, gid))

\* user show [<user>]
UserShow ==
  \E user \in {{}} \cup {{u} : u \in Users} :
    Run("user_show", [user |-> user], user_show(Cur, user))

\* group member --add <user> <group> with the DN of the user as <user>
GroupMemberAddDN ==
  \E group \in GroupNames, user \in {DNText(u) : u \in Users} :
    Run("group_member_add", [group |-> group, user |-> user],
        group_create_member(Cur, group, user))

NoCmd == [cmd |-> "none", args |-> <<>>, exit |-> 0, raised |-> "none",
          ops |-> <<>>, log |-> <<>>, session |-> "none", out |-> <<>>]

\* the invocations that run at the same time: none but in SpecRace
Procs == {"p1", "p2"}

\* a process that has not started: pc is the place in the command, the other
\* fields are its arguments and the local variables of the command
Idle == [cmd |-> "none", pc |-> "idle", user |-> "", group |-> "",
         uid |-> {}, gid |-> {}, seen |-> {}, rec |-> <<>>,
         wrote |-> FALSE, raised |-> "none"]

NoProcs == [p \in Procs |-> Idle]

\* ------------------------------------------------------------ start states
\* The directory a run starts with is one the commands themselves produce:
\* each user as "user create --uid N --gid N <user>" leaves it (with its
\* primary group), and the group devs absent or as "group create" leaves it.
SeedId(user) == IF user = "alice" THEN minuid + 1 ELSE minuid + 2

SeedUsers(S) ==
  [u \in S |-> user_record(u, SeedId(u), SeedId(u), NoAttrs,
                           _getpass({}, TheOne(GenPasswords), TheOne(Salts)))]

SeedPrimary(S) == [u \in S |-> PosixEntry(SeedId(u), {})]

SeedDevs ==
  {<<>>}
  \cup {("devs" :> PosixEntry(mingid + 3, m)) : m \in SUBSET Users}
  \cup {("devs" :> NamedEntry(m)) : m \in (SUBSET Users) \ {{}}}

SeedSets == {{}, {"alice"}, Users}

Init ==
  /\ \E S \in SeedSets, d \in SeedDevs :
       /\ users = SeedUsers(S)
       /\ groups = SeedPrimary(S) @@ d
  /\ last = NoCmd
  /\ ncmds = 0
  /\ procs = NoProcs

Next ==
  \/ UserCreate
  \/ UserUpdate
  \/ UserDelete
  \/ GroupCreate
  \/ GroupDelete
  \/ GroupMemberAdd
  \/ GroupMemberDel
  \/ GroupMemberUpdate
  \/ GroupUpdate

Spec == Init /\ [][Next]_vars

\* ------------------------------------------------ the group commands only
\* the commands that write group entries without deleting any
NextGroups ==
  \/ GroupCreate
  \/ GroupUpdate
  \/ GroupMemberAdd
  \/ GroupMemberDel
  \/ GroupMemberUpdate
  \/ UserUpdate

\* the start states in which every user has an entry
InitGroups == Init /\ DOMAIN users = Users

SpecGroups == InitGroups /\ [][NextGroups]_vars

\* ------------------------------------------- the last commands of a longer run
\* the number of commands still to run
LastCmds == 1

\* an entry that other tooling wrote may hold a givenName
WithGivenName(us, F) ==
  [u \in DOMAIN us |-> IF u \in F THEN us[u] @@ [givenName |-> "Given"]
                       ELSE us[u]]

\* The directory as earlier commands left it: the primary groups of the users
\* may have been deleted, and the user entries may come from other tooling.
InitLast ==
  /\ \E S \in SeedSets, d \in SeedDevs :
       \E P \in {{}, S}, F \in {{}, S} :
         /\ users = WithGivenName(SeedUsers(S), F)
         /\ groups = SeedPrimary(P) @@ d
  /\ last = NoCmd
  /\ ncmds = MaxCmds - LastCmds
  /\ procs = NoProcs

NextLast ==
  \/ UserCreate
  \/ UserUpdate
  \/ UserUpdateAttrs
  \/ UserDelete
  \/ GroupCreate
  \/ GroupDelete
  \/ GroupMemberAdd
  \/ GroupMemberDel
  \/ GroupMemberUpdate
  \/ GroupUpdate

SpecLast == InitLast /\ [][NextLast]_vars

\* ------------------------------------------- what "user show" prints of groups
\* The member commands, the member given by name or by DN, then user show
\* and user update.
NextShow ==
  \/ UserShow
  \/ UserUpdate
  \/ GroupMemberAdd
  \/ GroupMemberAddDN
  \/ GroupMemberDel

SpecShow == Init /\ [][NextShow]_vars

\* ------------------------------------------------- commands on an absent user
\* One user has an entry and the other has none. Groups are created with
\* members, by name whether or not a user entry of that name exists, and
\* users are updated and deleted.
InitAbsent == Init /\ DOMAIN users = {"alice"}

NextAbsent ==
  \/ GroupCreate
  \/ UserUpdate
  \/ UserUpdateAttrs
  \/ UserDelete

SpecAbsent == InitAbsent /\ [][NextAbsent]_vars

\* ------------------------------------------------- the allocators on their own
\* IDs an entry may hold and an option may name: the range and one beyond
AllocUids == (minuid - 1)..(maxuid + 1)
AllocGids == (mingid - 1)..(maxgid + 1)

\* user entries holding any uidNumbers
AllocUsers ==
  UNION {[S -> [uidNumber : AllocUids, gidNumber : {mingid}]] : S \in SUBSET Users}

\* group entries: posixGroups holding any gidNumbers, and groupOfNames entries
AllocGroups ==
  UNION {[S -> {PosixEntry(g, {}) : g \in AllocGids} \cup {NamedEntry({"alice"})}] :
           S \in SUBSET GroupNames}

InitAlloc ==
  /\ \/ users \in AllocUsers /\ groups = <<>>
     \/ users = <<>> /\ groups \in AllocGroups
  /\ last = NoCmd
  /\ ncmds = 0
  /\ procs = NoProcs

Called(cmd, id, r) ==
  /\ last' = [cmd |-> cmd, args |-> [id |-> id], exit |-> ExitCode(r),
              raised |-> r.raised, ret |-> r.ret, ops |-> <<>>, log |-> <<>>]
  /\ UNCHANGED <<users, groups, ncmds, procs>>

GetUid ==
  \E uid \in {{}} \cup {{v} : v \in AllocUids} :
    Called("_getuid", uid, _getuid(users, uid))

GetGid ==
  \E gid \in {{}} \cup {{v} : v \in AllocGids} :
    Called("_getgid", gid, _getgid(groups, gid))

NextAlloc ==
  \/ GetUid
  \/ GetGid

SpecAlloc == InitAlloc /\ [][NextAlloc]_vars

\* ------------------------------------------------------------- credentials
\* _getpass on its own, and user create and user update with and without a
\* --pass option, over some outcomes of the draws and of the salt.
Draws ==
  {[i \in 1..size |-> ((i * k) % Len(chars)) + 1] : k \in {1, 7, 31, 61}}

\* the passwords that these draws generate
PassGens == {generated(draw, size) : draw \in Draws}

PassSalts == Salts \cup {"zz99"}

\* no --pass option, an empty one, a password
OptPass == {{}, {""}, {"s3cret"}}

PassArgs(pass) ==
  [pass |-> pass] @@ [uid |-> {}, gid |-> {}, groups |-> <<>>, dupHost |-> FALSE]
    @@ NoAttrs

GetPass ==
  \E pass \in OptPass, gen \in PassGens, salt \in PassSalts :
    /\ last' = [cmd |-> "_getpass",
                args |-> [pass |-> pass, gen |-> gen, salt |-> salt],
                exit |-> 0, raised |-> "none",
                ret |-> _getpass(pass, gen, salt),
                ops |-> <<>>, log |-> <<>>]
    /\ UNCHANGED <<users, groups, ncmds, procs>>

UserCreatePass ==
  \E user \in Users, pass \in OptPass, gen \in PassGens, salt \in PassSalts :
    Run("user_create",
        [user |-> user, gen |-> gen, salt |-> salt] @@ PassArgs(pass),
        user_create(Cur, user, PassArgs(pass), gen, salt))

UserUpdatePass ==
  \E user \in Users, pass \in OptPass, salt \in PassSalts :
    Run("user_update", [user |-> user, gen |-> "", salt |-> salt]
                         @@ PassArgs(pass),
        user_update(Cur, user, PassArgs(pass), salt))

\* one user has an entry, with its primary group, and the other has none
InitPass == Init /\ DOMAIN users = {"alice"} /\ DOMAIN groups = {"alice"}

NextPass ==
  \/ GetPass
  \/ UserCreatePass
  \/ UserUpdatePass

SpecPass == InitPass /\ [][NextPass]_vars

\* ------------------------------------------- invocations at the same time
\* Two processes run one command each against the same directory.  A step
\* of a process is one operation of the directory (a search, an add_s, a
\* modify_s) with the Python code up to the next one.
Done(q, raised) == [q EXCEPT !.pc = "done", !.raised = raised]

\* the user names the two processes are started with
RaceUsers == Users \cup {"carol"}

\* main(): the process is started with "user create <user>"
RaceStartCreate(p) ==
  /\ procs[p].pc = "idle"
  /\ \E user \in RaceUsers :
       procs' = [procs EXCEPT ![p] = [Idle EXCEPT !.cmd = "user_create",
                                                  !.user = user,
                                                  !.pc = "getuid"]]
  /\ UNCHANGED <<users, groups, last, ncmds>>

\* uid = self._getuid(uid=None): the search and the choice of the uid; seen
\* is the set of entries the search returned
RaceGetUid(p) ==
  /\ procs[p].pc = "getuid"
  /\ LET r == _getuid(users, {}) IN
     procs' = [procs EXCEPT ![p] = [@ EXCEPT !.uid = r.ret,
                                             !.seen = DOMAIN users,
                                             !.pc = "getgid"]]
  /\ UNCHANGED <<users, groups, last, ncmds>>

\* gid = self._getgid(gid=None)
RaceGetGid(p) ==
  /\ procs[p].pc = "getgid"
  /\ LET r == _getgid(groups, {}) IN
     procs' = [procs EXCEPT ![p] = [@ EXCEPT !.gid = r.ret, !.pc = "add"]]
  /\ UNCHANGED <<users, groups, last, ncmds>>

\* the add_s step with the uid chosen again from the directory as it is now
RaceAddUser_rescan(p) ==
  /\ procs[p].pc = "add"
  /\ \E gen \in GenPasswords, salt \in Salts :
       LET q == procs[p]
           rec == user_record(q.user, TheOne(_getuid(users, {}).ret),
                              TheOne(q.gid), NoAttrs, _getpass({}, gen, salt))
           w == add_user(Cur, q.user, rec, FALSE)
       IN /\ users' = w.users
          /\ procs' = [procs EXCEPT ![p] =
                         IF w.raised = "none"
                         THEN [q EXCEPT !.pc = "group", !.wrote = TRUE]
                         ELSE Done(q, "none")]
  /\ UNCHANGED <<groups, last, ncmds>>

\* self.conn.add_s(user_dn, user_record) with the uid and gid chosen before
RaceAddUser(p) ==
  /\ procs[p].pc = "add"
  /\ \E gen \in GenPasswords, salt \in Salts :
       LET q == procs[p]
           rec == user_record(q.user, TheOne(q.uid), TheOne(q.gid), NoAttrs,
                              _getpass({}, gen, salt))
           w == add_user(Cur, q.user, rec, FALSE)
       IN /\ users' = w.users
          /\ procs' = [procs EXCEPT ![p] =
                         IF w.raised = "none"
                         THEN [q EXCEPT !.pc = "group", !.wrote = TRUE]
                         ELSE Done(q, "none")]
  /\ UNCHANGED <<groups, last, ncmds>>

\* self.group_create({'--gid': gid, '<group>': user})
RaceCreateGroup(p) ==
  /\ procs[p].pc = "group"
  /\ LET q == procs[p]
         g == group_create(Cur, q.user, q.gid, FALSE, {})
     IN /\ groups' = g.groups
        /\ procs' = [procs EXCEPT ![p] = Done(q, g.raised)]
  /\ UNCHANGED <<users, last, ncmds>>

\* main(): the process is started with "group member --add <user> <group>"
RaceStartAdd(p) ==
  /\ procs[p].pc = "idle"
  /\ \E user \in RaceUsers, group \in GroupNames :
       procs' = [procs EXCEPT ![p] = [Idle EXCEPT !.cmd = "group_member_add",
                                                  !.user = user,
                                                  !.group = group,
                                                  !.pc = "search"]]
  /\ UNCHANGED <<users, groups, last, ncmds>>

\* the group_record that group_create_member builds from the entry e that
\* its search returned
member_record(e, member) ==
  IF e.memberUid # {}
  THEN [raised |-> "none", oc |-> "posixGroup", attr |-> "memberUid",
        vals |-> e.memberUid \cup {member}]
  ELSE IF e.member # {}
  THEN [raised |-> "none", oc |-> "groupOfNames", attr |-> "member",
        vals |-> e.member \cup {UserDN(member)}]
  ELSE [raised |-> "KeyError", oc |-> "", attr |-> "", vals |-> {}]

\* the search of group_create_member and the record built from its result
RaceSearchMembers(p) ==
  /\ procs[p].pc = "search"
  /\ LET q == procs[p] IN
     procs' = [procs EXCEPT ![p] =
       IF q.group \notin DOMAIN groups THEN Done(q, "SystemExit")
       ELSE LET r == member_record(groups[q.group], q.user) IN
            IF r.raised # "none" THEN Done(q, r.raised)
            ELSE [q EXCEPT !.rec = r, !.pc = "modify"]]
  /\ UNCHANGED <<users, groups, last, ncmds>>

\* the modify_s step with the record built from the entry as it is now
RaceModifyMembers_reread(p) ==
  /\ procs[p].pc = "modify"
  /\ LET q == procs[p]
         r == IF q.group \in DOMAIN groups
              THEN member_record(groups[q.group], q.user) ELSE q.rec
         m == modify_group(Cur, q.group, r.oc, r.attr, r.vals)
     IN /\ groups' = m.groups
        /\ procs' = [procs EXCEPT ![p] =
                       [Done(q, "none") EXCEPT !.wrote = (m.raised = "none")]]
  /\ UNCHANGED <<users, last, ncmds>>

\* self.conn.modify_s(group_dn, group_record) with the record built before;
\* an exception is logged
RaceModifyMembers(p) ==
  /\ procs[p].pc = "modify"
  /\ LET q == procs[p]
         m == modify_group(Cur, q.group, q.rec.oc, q.rec.attr, q.rec.vals)
     IN /\ groups' = m.groups
        /\ procs' = [procs EXCEPT ![p] =
                       [Done(q, "none") EXCEPT !.wrote = (m.raised = "none")]]
  /\ UNCHANGED <<users, last, ncmds>>

NextRace ==
  \E p \in Procs :
    \/ RaceStartCreate(p)
    \/ RaceGetUid(p)
    \/ RaceGetGid(p)
    \/ RaceAddUser(p)
    \/ RaceCreateGroup(p)
    \/ RaceStartAdd(p)
    \/ RaceSearchMembers(p)
    \/ RaceModifyMembers(p)

SpecRace == Init /\ [][NextRace]_vars

\* =================================================================== claims
\* the last step was a call of an allocator
IsAlloc == last.cmd \in {"_getuid", "_getgid"}

\* the entries of the kind the allocator searched, the IDs they hold, the range
KindEntries == IF last.cmd = "_getuid" THEN DOMAIN users ELSE PosixGroups(groups)
KindIds ==
  IF last.cmd = "_getuid" THEN {users[u].uidNumber : u \in DOMAIN users}
  ELSE UNION {groups[g].gidNumber : g \in PosixGroups(groups)}
KindMin == IF last.cmd = "_getuid" THEN minuid ELSE mingid
KindMax == IF last.cmd = "_getuid" THEN maxuid ELSE maxgid

\* C1: no two User entries hold the same uidNumber, in every state reached
\* by createUser, updateUser and deleteUser from a directory with unique
\* uidNumbers.
C1_UidNumberUnique ==
  \A u1 \in DOMAIN users, u2 \in DOMAIN users :
    u1 # u2 => users[u1].uidNumber # users[u2].uidNumber

\* C2: for both kinds and every explicit ID v, allocate returns v if and
\* only if min < v < max and no existing entry of the kind holds v, and
\* fails with an error otherwise.
C2_ExplicitIff ==
  (IsAlloc /\ last.args.id # {}) =>
    LET v == TheOne(last.args.id) IN
    /\ (last.ret = {v}) <=> (KindMin < v /\ v < KindMax /\ v \notin KindIds)
    /\ (last.ret # {v}) => (last.ret = {} /\ last.raised # "none")

\* C3: with no entry of the kind in the directory, allocate without an
\* explicit ID returns exactly the configured min of the kind.
C3_EmptyGivesMin ==
  (IsAlloc /\ last.args.id = {} /\ KindEntries = {}) => last.ret = {KindMin}

C3_Witness ==
  /\ last.cmd = "_getuid"
  /\ last.args.id = {}
  /\ DOMAIN users = {}
  /\ DOMAIN groups # {}

\* C4: with a non-empty set of existing IDs that all lie in [min, max), an
\* entry holding exactly min included, allocate without an explicit ID
\* returns max(existing) + 1.
C4_NextAfterMax ==
  (/\ IsAlloc
   /\ last.args.id = {}
   /\ KindIds # {}
   /\ \A x \in KindIds : KindMin <= x /\ x < KindMax)
  => last.ret = {Max(KindIds) + 1}

\* C5: every ID allocate returns is below max; without an explicit ID, when
\* max(existing) + 1 is not below max the call ends in an error.
C5_ReturnsBelowMax ==
  IsAlloc =>
    /\ \A x \in last.ret : x < KindMax
    /\ (/\ last.args.id = {}
        /\ \E x \in KindIds : KindMin <= x /\ x < KindMax /\ x + 1 >= KindMax)
       => (last.ret = {} /\ last.raised # "none")

\* the step is one run of the command cmd
StepOf(cmd) == ncmds' = ncmds + 1 /\ last'.cmd = cmd

\* the group names of a --group list
Target(grps) == Range(grps) \ {""}

\* the group entries a command sent a write to
Written(ops) == {GroupOfDN(ops[i].dn) : i \in {j \in 1..Len(ops) : ops[j].dn[1] = "cn"}}

\* the step is a user_update that gets to its "if groups:" part
ReconcileStep ==
  /\ StepOf("user_update")
  /\ last'.args.user \in DOMAIN users
  /\ ~last'.args.dupHost
  /\ last'.args.groups # <<>>

\* C6: createUser(u) without explicit uid and gid on an empty directory
\* writes the User entry u with uidNumber = min and a PosixGroup u with
\* gidNumber = min; and every createUser(u) that succeeds leaves the User
\* entry u and a PosixGroup u carrying the user's gidNumber.
C6_CreateUserWithPrimaryGroup ==
  [][StepOf("user_create") =>
       LET u == last'.args.user IN
       /\ (/\ DOMAIN users = {} /\ DOMAIN groups = {}
           /\ last'.args.uid = {} /\ last'.args.gid = {}
           /\ last'.args.groups = <<>> /\ ~last'.args.dupHost)
          => /\ u \in DOMAIN users' /\ users'[u].uidNumber = minuid
             /\ u \in DOMAIN groups'
             /\ groups'[u].objectClass = "posixGroup"
             /\ groups'[u].gidNumber = {mingid}
       /\ (last'.exit = 0 /\ last'.log = <<>>)
          => /\ u \in DOMAIN users' /\ u \in DOMAIN groups'
             /\ groups'[u].objectClass = "posixGroup"
             /\ groups'[u].gidNumber = {users'[u].gidNumber}]_vars

\* C7: after updateUser(user, --group G), G a set of existing groups other
\* than the primary group (the group of the user's name), the membership
\* scan finds the user in exactly the groups of G, the primary group aside.
C7_ReconcileRoundTrip ==
  (/\ last.cmd = "user_update"
   /\ last.args.groups # <<>>
   /\ ~last.args.dupHost
   /\ last.args.user \in DOMAIN users
   /\ last.args.user \notin Target(last.args.groups)
   /\ Target(last.args.groups) \subseteq DOMAIN groups)
  => CurrentGroups(groups, last.args.user) \ {last.args.user}
       = Target(last.args.groups)

\* C8: a second reconcile of the same user to the same target groups, right
\* after the first, sends no write to any group entry.
C8_SecondReconcileWritesNothing ==
  [][(/\ last.cmd = "user_update"
      /\ last.exit = 0
      /\ ReconcileStep
      /\ last'.args = last.args)
     => Written(last'.ops) = {}]_vars

\* C9: reconcile writes only to the groups of (current - target) and
\* (target - current); every other group entry is unchanged, and in the
\* groups written the membership of every other user is kept.
C9_MinimalDelta ==
  [][ReconcileStep =>
       LET u == last'.args.user
           current == CurrentGroups(groups, u)
           target == Target(last'.args.groups)
           delta == (current \ target) \cup (target \ current)
       IN /\ Written(last'.ops) \subseteq delta
          /\ DOMAIN groups' = DOMAIN groups
          /\ \A g \in DOMAIN groups :
               /\ g \notin delta => groups'[g] = groups[g]
               /\ groups'[g].memberUid \ {u} = groups[g].memberUid \ {u}
               /\ groups'[g].member \ {UserDN(u)} = groups[g].member \ {UserDN(u)}]_vars

\* what the commands log when a group is not found
NotFoundLogged(log) ==
  \E i \in 1..Len(log) :
    log[i] \in {"Invalid group", "Adding member to a group - group does not exit"}

\* C10: reconcile and group member add never create a group: with a target
\* group that does not exist they fail with NotFound and the process exits
\* non-zero, and the set of group entries is the same after as before.
C10_NeverCreatesGroup ==
  [][/\ ReconcileStep =>
          /\ DOMAIN groups' = DOMAIN groups
          /\ (\E g \in Target(last'.args.groups) : g \notin DOMAIN groups)
             => (last'.exit = 1 /\ NotFoundLogged(last'.log))
     /\ StepOf("group_member_add") =>
          /\ DOMAIN groups' = DOMAIN groups
          /\ last'.args.group \notin DOMAIN groups
             => (last'.exit = 1 /\ NotFoundLogged(last'.log))]_vars

\* a record or an entry of one variant: not gidNumber together with member,
\* not memberUid under objectClass groupOfNames
OneVariant(oc, attrs) ==
  /\ ~({"gidNumber", "member"} \subseteq attrs)
  /\ ~(oc = "groupOfNames" /\ "memberUid" \in attrs)

\* the group records that the operations ops sent to the directory
GroupRecords(ops) ==
  {ops[i] : i \in {j \in DOMAIN ops : /\ ops[j].dn[1] = "cn"
                                      /\ ops[j].op \in {"add_s", "modify_s"}}}

\* C11: through group create, group update, member add, member delete,
\* member update and user update, no group entry holds gidNumber together
\* with member or memberUid under objectClass groupOfNames, no record that a
\* command sends does, and a group that exists before and after a command
\* keeps its objectClass.
C11_VariantConsistency ==
  [][/\ \A g \in DOMAIN groups' :
          OneVariant(groups'[g].objectClass, AttrsOf(groups'[g]))
     /\ \A r \in GroupRecords(last'.ops) : OneVariant(r.oc, r.attrs)
     /\ \A g \in DOMAIN groups \cap DOMAIN groups' :
          groups'[g].objectClass = groups[g].objectClass]_vars

\* a member update of a groupOfNames entry went through on the second attempt
C11_Witness ==
  /\ last.cmd = "group_member_update"
  /\ last.exit = 0
  /\ Len(last.ops) = 2
  /\ last.args.group \in DOMAIN groups
  /\ groups[last.args.group].objectClass = "groupOfNames"
  /\ groups[last.args.group].member = {UserDN(m) : m \in last.args.user}

\* what an allocator raises: the ID is taken, or it is outside the range
AllocationFailures == {"UID already exists", "Invalid UID", "Invalid GID"}

\* C12: a user create or group create that ends with an allocation failure
\* (ID taken, ID outside the range) has written nothing: no user entry, no
\* primary group, no membership change, and no write was sent to the directory.
C12_AllocationFailureWritesNothing ==
  [][(/\ (StepOf("user_create") \/ StepOf("group_create"))
      /\ last'.raised \in AllocationFailures)
     => (/\ users' = users
         /\ groups' = groups
         /\ last'.ops = <<>>)]_vars

\* the option names of the command line and the attributes they set
OptionAttr ==
  [uid |-> "uidNumber", gid |-> "gidNumber", pass |-> "userPassword",
   home |-> "homeDirectory", shell |-> "loginShell", gecos |-> "givenName",
   sshkey |-> "sshPublicKey", host |-> "host", mail |-> "mail"]

\* the options that the command of the step was given
Supplied(a) == {o \in OptionNames : a[o] # {}}

\* the value the entry is to hold for option o of the arguments a
Expected(a, o) ==
  IF o = "pass" THEN {ssha(TheOne(a.pass), salt) : salt \in Salts}
  ELSE IF o = "sshkey" THEN {KeyFiles[TheOne(a.sshkey)]}
  ELSE IF o = "host" THEN {a.host}
  ELSE a[o]

\* C13: a user update of an existing user that goes through (key file
\* readable, no repeated host value) leaves each attribute whose option was
\* given with the new value and every other attribute of the entry as it was.
C13_UpdateExactlySupplied ==
  [][(/\ StepOf("user_update")
      /\ last'.args.user \in DOMAIN users
      /\ ~last'.args.dupHost
      /\ ~CantOpen(last'.args.sshkey))
     => LET a == last'.args
            old == users[a.user]
            new == users'[a.user]
        IN /\ \A o \in Supplied(a) :
                /\ OptionAttr[o] \in DOMAIN new
                /\ new[OptionAttr[o]] \in Expected(a, o)
           /\ \A k \in DOMAIN old \ {OptionAttr[o] : o \in Supplied(a)} :
                k \in DOMAIN new /\ new[k] = old[k]]_vars

\* C14: user delete of an existing user removes its entry, then the group
\* entry of the same name; a missing primary group is only logged and the
\* process still exits 0; every other user and group entry, memberships of
\* the deleted user included, is as before.
C14_DeleteUser ==
  [][(StepOf("user_delete") /\ last'.args.user \in DOMAIN users)
     => LET u == last'.args.user IN
        /\ last'.exit = 0
        /\ users' = [v \in DOMAIN users \ {u} |-> users[v]]
        /\ groups' = [g \in DOMAIN groups \ {u} |-> groups[g]]
        /\ Len(last'.ops) = 2
        /\ last'.ops[1] = Op("delete_s", UserDN(u), TRUE)
        /\ last'.ops[2] = Op("delete_s", GroupDN(u), u \in DOMAIN groups)]_vars

\* a user whose primary group was already gone has been deleted, and stays a
\* member of another group
C14_Witness ==
  /\ last.cmd = "user_delete"
  /\ last.exit = 0
  /\ Len(last.ops) = 2
  /\ ~last.ops[2].ok
  /\ last.args.user \notin DOMAIN users
  /\ \E g \in DOMAIN groups : InGroup(groups[g], last.args.user)

\* C15: a user update without a --group option, whatever attribute options
\* it has, sends no write to any group entry and leaves every group entry,
\* the memberships of the user included, as it was.
C15_OmittedGroupListKeepsMemberships ==
  [][(StepOf("user_update") /\ last'.args.groups = <<>>)
     => (/\ groups' = groups
         /\ Written(last'.ops) = {})]_vars

\* a user in a group was updated with every attribute option and no --group
\* option, and is still in the group
C15_Witness ==
  /\ last.cmd = "user_update"
  /\ last.exit = 0
  /\ last.args.groups = <<>>
  /\ Supplied(last.args) = OptionNames
  /\ last.args.user \in DOMAIN users
  /\ users[last.args.user].loginShell = "/bin/zsh"
  /\ \E g \in DOMAIN groups : InGroup(groups[g], last.args.user)

\* C16: no two posixGroup entries hold the same gidNumber.
C16_GidNumberUnique ==
  \A g, h \in PosixGroups(groups) :
    g # h => groups[g].gidNumber \cap groups[h].gidNumber = {}

\* an explicit ID strictly inside the range, or none
InsideRange(id, min, max) == \A v \in id : min < v /\ v < max

\* an explicit uid that another user than user holds
HeldByAnother(us, user, uid) ==
  \E u \in DOMAIN us \ {user} : us[u].uidNumber \in uid

\* the message is in the log
Logged(log, m) == \E i \in 1..Len(log) : log[i] = m

\* C17: user create for a name that has a user entry, and group create for
\* a name that has a group entry, with ID options that are no allocation
\* failure (inside the range, the uid not held by another user), log that the
\* entry already exists, exit 0, and leave every user and group entry as it
\* was: no entry overwritten, no primary group created, no membership applied.
C17_CreateCollision ==
  [][LET a == last'.args IN
     /\ (/\ StepOf("user_create")
         /\ a.user \in DOMAIN users
         /\ InsideRange(a.uid, minuid, maxuid)
         /\ InsideRange(a.gid, mingid, maxgid)
         /\ ~HeldByAnother(users, a.user, a.uid))
        => (/\ last'.exit = 0
            /\ Logged(last'.log, "User already exists")
            /\ users' = users
            /\ groups' = groups)
     /\ (/\ StepOf("group_create")
         /\ a.group \in DOMAIN groups
         /\ InsideRange(a.gid, mingid, maxgid))
        => (/\ last'.exit = 0
            /\ Logged(last'.log, "Group already exists")
            /\ users' = users
            /\ groups' = groups)]_vars

\* the single write of a member add or delete: objectClass oc, attribute attr
OneWrite(ops, group, oc, attr) ==
  /\ Len(ops) = 1
  /\ ops[1].op = "modify_s"
  /\ ops[1].dn = GroupDN(group)
  /\ ops[1].oc = oc
  /\ ops[1].attrs = {attr}

\* C18: member add and member delete on an existing group write memberUid
\* (bare name) when the entry is a posixGroup, with or without memberUid
\* values, and member (full DN) when it is a groupOfNames; a member add to a
\* posixGroup without members goes through and leaves memberUid = {user}; on
\* a missing group they log the error and write nothing.
C18_VariantResolution ==
  [][LET a == last'.args IN
     /\ (StepOf("group_member_add") /\ a.group \in DOMAIN groups)
        => LET e == groups[a.group] IN
           IF e.objectClass = "posixGroup"
           THEN /\ OneWrite(last'.ops, a.group, "posixGroup", "memberUid")
                /\ last'.exit = 0
                /\ groups'[a.group].memberUid = e.memberUid \cup {a.user}
           ELSE /\ OneWrite(last'.ops, a.group, "groupOfNames", "member")
                /\ last'.exit = 0
                /\ groups'[a.group].member = e.member \cup {UserDN(a.user)}
     /\ (/\ StepOf("group_member_del")
         /\ a.group \in DOMAIN groups
         /\ InGroup(groups[a.group], a.user))
        => LET e == groups[a.group] IN
           IF e.objectClass = "posixGroup"
           THEN OneWrite(last'.ops, a.group, "posixGroup", "memberUid")
           ELSE OneWrite(last'.ops, a.group, "groupOfNames", "member")
     /\ (/\ StepOf("group_member_add") \/ StepOf("group_member_del")
         /\ a.group \notin DOMAIN groups)
        => (/\ last'.log # <<>>
            /\ last'.ops = <<>>
            /\ groups' = groups)]_vars

\* the values of the membership attribute of a group entry, and the value
\* that stands for a user in it
MemberValues(e) == IF e.objectClass = "posixGroup" THEN e.memberUid ELSE e.member
MemberValue(e, user) == IF e.objectClass = "posixGroup" THEN user ELSE UserDN(user)

\* C19: a member add to an existing group leaves its membership attribute
\* equal to the old values together with the user (bare name in a posixGroup,
\* full DN in a groupOfNames): a user already in it changes nothing, and no
\* member is dropped.
C19_MemberAddIsUnion ==
  [][(StepOf("group_member_add") /\ last'.args.group \in DOMAIN groups)
     => LET g == last'.args.group
            e == groups[g]
        IN /\ g \in DOMAIN groups'
           /\ MemberValues(groups'[g])
                = MemberValues(e) \cup {MemberValue(e, last'.args.user)}]_vars

\* C20: a user update with an empty target list (--group '') takes the user
\* out of every group that holds it, a posixGroup whose only member it was
\* included, adds it to none and leaves the other members of every group.
C20_ReconcileToEmpty ==
  [][(/\ StepOf("user_update")
      /\ last'.args.user \in DOMAIN users
      /\ ~last'.args.dupHost
      /\ last'.args.groups = <<"">>)
     => LET u == last'.args.user IN
        /\ DOMAIN groups' = DOMAIN groups
        /\ \A g \in DOMAIN groups :
             /\ ~InGroup(groups'[g], u)
             /\ MemberValues(groups'[g])
                  = MemberValues(groups[g]) \ {MemberValue(groups[g], u)}]_vars

\* two user creates, for different users and without --uid, that both wrote
\* their entry after a search that did not return the entry of the other
BothScannedFirst(p, q) ==
  /\ p # q
  /\ procs[p].cmd = "user_create" /\ procs[q].cmd = "user_create"
  /\ procs[p].user # procs[q].user
  /\ procs[p].wrote /\ procs[q].wrote
  /\ procs[q].user \notin procs[p].seen
  /\ procs[p].user \notin procs[q].seen

\* C21: when two user creates without --uid run at the same time and each
\* does the allocator's search before the other writes its entry, both
\* choose the same uidNumber and both entries are written: the directory
\* holds two users with one uidNumber.
C21_InterleavedAllocation ==
  \A p, q \in Procs :
    BothScannedFirst(p, q)
      => /\ {procs[p].user, procs[q].user} \subseteq DOMAIN users
         /\ users[procs[p].user].uidNumber = users[procs[q].user].uidNumber

\* both creates are over and the two entries hold the same uidNumber
C21_Witness ==
  /\ BothScannedFirst("p1", "p2")
  /\ procs["p1"].pc = "done" /\ procs["p2"].pc = "done"
  /\ users[procs["p1"].user].uidNumber = users[procs["p2"].user].uidNumber

\* the value that a member add of process p puts into the attribute
AddedValue(p) ==
  IF procs[p].rec.attr = "memberUid" THEN procs[p].user
  ELSE UserDN(procs[p].user)

\* two member adds to one group, for different users, that both wrote the
\* attribute after a search that did not return the value of the other
BothReadFirst(p, q) ==
  /\ p # q
  /\ procs[p].cmd = "group_member_add" /\ procs[q].cmd = "group_member_add"
  /\ procs[p].group = procs[q].group
  /\ procs[p].user # procs[q].user
  /\ procs[p].wrote /\ procs[q].wrote
  /\ procs[p].rec.attr = procs[q].rec.attr
  /\ AddedValue(q) \notin procs[p].rec.vals
  /\ AddedValue(p) \notin procs[q].rec.vals

\* C22: when two member adds to the same group for two users run at the
\* same time and each reads the member list before the other writes it,
\* the member list holds only one of the two users after both have written:
\* an add that went through is missing from the group.
C22_LostMemberAdd ==
  \A p, q \in Procs :
    BothReadFirst(p, q)
      => ~({AddedValue(p), AddedValue(q)}
             \subseteq MemberValues(groups[procs[p].group]))

\* both adds are over and the user of the first process is not in the group
C22_Witness ==
  /\ BothReadFirst("p1", "p2")
  /\ procs["p1"].pc = "done" /\ procs["p2"].pc = "done"
  /\ ~InGroup(groups[procs["p1"].group], procs["p1"].user)
  /\ InGroup(groups[procs["p2"].group], procs["p2"].user)

\* C23: when an invocation ends, whether the command completed, exited
\* non-zero or raised, the directory session that was bound at startup has
\* been released.
C23_SessionReleased ==
  last.cmd # "none" => last.session = "released"

\* C24: the group names that "user show" prints for a user are the groups
\* in which the scan of "user update" finds the same user, and each group is
\* printed once.
C24_ShowAgreesWithScan ==
  (last.cmd = "user_show" /\ last.exit = 0)
    => \A u \in DOMAIN last.out :
         /\ Range(last.out[u]) = CurrentGroups(groups, u)
         /\ Len(last.out[u]) = Cardinality(Range(last.out[u]))

\* the step is a user update or a user delete for a name with no user entry
AbsentUserStep ==
  /\ (StepOf("user_update") \/ StepOf("user_delete"))
  /\ last'.args.user \notin DOMAIN users

\* the command ended with exit code 1 and no entry, user or group, changed
\* or was written
FailedUnchanged ==
  /\ last'.exit = 1
  /\ users' = users
  /\ groups' = groups
  /\ \A i \in 1..Len(last'.ops) : ~last'.ops[i].ok

\* the error logged says that the user is not there
UserNotThereLogged ==
  IF last'.cmd = "user_delete"
  THEN Logged(last'.log, "User doesnt exist")
  ELSE Logged(last'.log, "No such user")

C26_ValidateBeforeMutate ==
  [][(/\ ReconcileStep
      /\ \E g \in Target(last'.args.groups) : g \notin DOMAIN groups)
     => (/\ last'.exit = 1
         /\ last'.ops[1] = Op("modify_s", UserDN(last'.args.user), TRUE)
         /\ Written(last'.ops) = {}
         /\ groups' = groups)]_vars

\* the lowercase letters, the uppercase letters and the digits
Alphabet ==
  {"a", "b", "c", "d", "e", "f", "g", "h", "i", "j", "k", "l", "m",
   "n", "o", "p", "q", "r", "s", "t", "u", "v", "w", "x", "y", "z",
   "A", "B", "C", "D", "E", "F", "G", "H", "I", "J", "K", "L", "M",
   "N", "O", "P", "Q", "R", "S", "T", "U", "V", "W", "X", "Y", "Z",
   "0", "1", "2", "3", "4", "5", "6", "7", "8", "9"}

\* the value starts with the scheme tag and goes on after it
Tagged(v) == Len(v) > 6 /\ SubSeq(v, 1, 6) = "{SSHA}"

\* a --pass option that gives a plaintext: present and not empty
GivesPlaintext(pass) == pass # {} /\ TheOne(pass) # ""

\* the plaintext of a command: the one given, else the one generated
Plaintext(a) == IF GivesPlaintext(a.pass) THEN TheOne(a.pass) ELSE a.gen

\* C27: _getpass returns a pair of plaintext and encoded value. A plaintext
\* that is given (an empty one counts as none) is returned as it is; when
\* none is given the plaintext has 9 characters, each a letter or a digit,
\* and the alphabet has 62 symbols. The encoded value starts with {SSHA}.
\* The userPassword of every user entry is an encoded value, and after a
\* user create or a user update with a plaintext that wrote the entry it is
\* the encoded value of that plaintext, not the plaintext.
C27_Credential ==
  /\ Cardinality(Alphabet) = 62
  /\ last.cmd = "_getpass"
       => /\ Len(last.ret) = 2
          /\ GivesPlaintext(last.args.pass)
               => last.ret[1] = TheOne(last.args.pass)
          /\ ~GivesPlaintext(last.args.pass)
               => /\ Len(last.ret[1]) = 9
                  /\ \A i \in 1..9 : SubSeq(last.ret[1], i, i) \in Alphabet
          /\ Tagged(last.ret[2])
          /\ last.ret[2] # last.ret[1]
  /\ \A u \in DOMAIN users : Tagged(users[u].userPassword)
  /\ (/\ last.cmd \in {"user_create", "user_update"}
      /\ last.ops # <<>>
      /\ last.ops[1] = Op(IF last.cmd = "user_create" THEN "add_s" ELSE "modify_s",
                          UserDN(last.args.user), TRUE)
      /\ (last.cmd = "user_update" => GivesPlaintext(last.args.pass)))
       => LET stored == users[last.args.user].userPassword
              plain == Plaintext(last.args)
          IN /\ stored # plain
             /\ stored = "{SSHA}" \o base64(sha1(plain \o last.args.salt)
                                            \o last.args.salt)

\* a user was created without a plaintext: the entry holds the encoded value
\* of the nine generated characters, the last of them the digit 9
C27_Witness ==
  /\ last.cmd = "user_create"
  /\ last.exit = 0
  /\ last.args.pass = {""}
  /\ last.args.user \in DOMAIN users
  /\ Len(last.args.gen) = 9
  /\ SubSeq(last.args.gen, 1, 1) = "9"
  /\ users[last.args.user].userPassword = ssha(last.args.gen, last.args.salt)

=============================================================================
